---- MODULE Spec2Model ----
(***************************************************************************)
(* Model of argilla/server/schemas/v1/datasets.py: the pydantic (v1)       *)
(* request/response schemas of datasets, fields, questions, metadata       *)
(* properties and records.                                                 *)
(*                                                                         *)
(* Every schema is a pure validation function.  The state machine is a     *)
(* request loop: while idle, one action per schema entry point draws a     *)
(* payload from a bounded set and applies the validator to it, recording   *)
(* which schema was applied (op), to which payload (arg) and what came     *)
(* out (res); Return hands the outcome back and the loop is idle again.    *)
(*                                                                         *)
(* Encodings                                                               *)
(*   str            a sequence of code points (97 = "a", 10 = "\n", ...)   *)
(*   Optional[T]    <<>> for None / not given, <<v>> for the value v       *)
(*   outcome        "accepted", "ValidationError" (pydantic collected the  *)
(*                  errors of the payload) or "KeyError" (an exception     *)
(*                  that escapes pydantic's error collection)              *)
(*   errors         a set of [loc, type, ctx] records, one per reported    *)
(*                  error                                                  *)
(***************************************************************************)
EXTENDS Integers, Sequences, FiniteSets, TLC

VARIABLES op, arg, res, calls, frames

vars == <<op, arg, res, calls, frames>>

\* the call in progress / the validator calls running on threads
request == <<op, arg, res>>
threads == <<calls, frames>>

(***************************************************************************)
(* Program constants (datasets.py lines 38-91).                            *)
(***************************************************************************)
DATASET_NAME_MIN_LENGTH == 1
DATASET_NAME_MAX_LENGTH == 200
FIELD_CREATE_NAME_MIN_LENGTH == 1
FIELD_CREATE_NAME_MAX_LENGTH == 200
FIELD_CREATE_TITLE_MIN_LENGTH == 1
FIELD_CREATE_TITLE_MAX_LENGTH == 500
QUESTION_CREATE_NAME_MIN_LENGTH == 1
QUESTION_CREATE_NAME_MAX_LENGTH == 200
QUESTION_CREATE_TITLE_MIN_LENGTH == 1
QUESTION_CREATE_TITLE_MAX_LENGTH == 500
QUESTION_CREATE_DESCRIPTION_MIN_LENGTH == 1
QUESTION_CREATE_DESCRIPTION_MAX_LENGTH == 1000
METADATA_PROPERTY_CREATE_NAME_MIN_LENGTH == 1
METADATA_PROPERTY_CREATE_NAME_MAX_LENGTH == 200
METADATA_PROPERTY_CREATE_TITLE_MIN_LENGTH == 1
METADATA_PROPERTY_CREATE_TITLE_MAX_LENGTH == 500
RATING_OPTIONS_MIN_ITEMS == 2
RATING_OPTIONS_MAX_ITEMS == 10
RATING_LOWER_VALUE_ALLOWED == 1
RATING_UPPER_VALUE_ALLOWED == 10
VALUE_TEXT_OPTION_VALUE_MIN_LENGTH == 1
VALUE_TEXT_OPTION_VALUE_MAX_LENGTH == 200
VALUE_TEXT_OPTION_TEXT_MIN_LENGTH == 1
VALUE_TEXT_OPTION_TEXT_MAX_LENGTH == 500
LABEL_SELECTION_OPTIONS_MIN_ITEMS == 2
LABEL_SELECTION_OPTIONS_MAX_ITEMS == 250
LABEL_SELECTION_MIN_VISIBLE_OPTIONS == 3
RANKING_OPTIONS_MIN_ITEMS == 2
RANKING_OPTIONS_MAX_ITEMS == 50
TERMS_METADATA_PROPERTY_VALUES_MIN_ITEMS == 1
TERMS_METADATA_PROPERTY_VALUES_MAX_ITEMS == 250
RECORDS_CREATE_MIN_ITEMS == 1
RECORDS_CREATE_MAX_ITEMS == 1000
RECORDS_UPDATE_MIN_ITEMS == 1
RECORDS_UPDATE_MAX_ITEMS == 1000

(***************************************************************************)
(* Bounds of the model.                                                    *)
(***************************************************************************)
MaxNameLen == 3
MaxOptions == 3
MaxNumber == 3
MaxResponses == 3
MaxUsers == 2
MaxItems == 2
MaxRelation == 2
MaxQueryLen == 4
MaxThreads == 2

(***************************************************************************)
(* Code points and character classes.                                      *)
(***************************************************************************)
LF == 10
SPACE == 32
HYPHEN == 45
DIGIT0 == 48
COMMA == 44
COLON == 58
UPPER_A == 65
UNDERSCORE == 95
LOWER_A == 97

IsLower(c) == c >= 97 /\ c <= 122
IsUpper(c) == c >= 65 /\ c <= 90
IsDigit(c) == c >= 48 /\ c <= 57

\* Optional[T]
None == <<>>
Some(v) == <<v>>
IsNone(o) == o = <<>>
Get(o) == o[1]

\* the string of n copies of the code point c
Repeat(c, n) == [i \in 1..n |-> c]

\* all strings over the alphabet A of length at most n
StringsUpTo(A, n) == UNION {[1..k -> A] : k \in 0..n}

\* one reported error: where, which kind, and the values its message names
ErrorCtx(loc, type, ctx) == [loc |-> loc, type |-> type, ctx |-> ctx]
Error(loc, type) == ErrorCtx(loc, type, {})

\* the errors of a nested model, reported under the location loc
Prefix(loc, errors) == {ErrorCtx(loc \o e.loc, e.type, e.ctx) : e \in errors}

Result(errors) ==
    [outcome |-> IF errors = {} THEN "accepted" ELSE "ValidationError",
     errors |-> errors]

(***************************************************************************)
(* Regular expressions, as re.match applies them (pydantic's constr uses   *)
(* cls.regex.match).  "$" matches at the end of the string and also just   *)
(* before a newline that is the last character; "." matches any character  *)
(* but a newline.                                                          *)
(***************************************************************************)
\* "$" after k consumed characters of s
DollarAt(s, k) ==
    \/ k = Len(s)
    \/ k = Len(s) - 1 /\ s[Len(s)] = LF

\* [a-zA-Z0-9-_ ]
DatasetNameClass(c) ==
    IsLower(c) \/ IsUpper(c) \/ IsDigit(c) \/ c = HYPHEN \/ c = UNDERSCORE \/ c = SPACE

\* [a-z0-9_-]
FieldNameClass(c) ==
    IsLower(c) \/ IsDigit(c) \/ c = UNDERSCORE \/ c = HYPHEN

\* DATASET_NAME_REGEX = ^(?!-|_)[a-zA-Z0-9-_ ]+$
MatchDatasetNameRegex(s) ==
    /\ ~(Len(s) >= 1 /\ (s[1] = HYPHEN \/ s[1] = UNDERSCORE))
    /\ \E k \in 1..Len(s) :
          /\ \A i \in 1..k : DatasetNameClass(s[i])
          /\ DollarAt(s, k)

\* FIELD_CREATE_NAME_REGEX = QUESTION_CREATE_NAME_REGEX =
\* METADATA_PROPERTY_CREATE_NAME_REGEX = ^(?=.*[a-z0-9])[a-z0-9_-]+$
MatchCreateNameRegex(s) ==
    /\ \E j \in 1..Len(s) :
          /\ IsLower(s[j]) \/ IsDigit(s[j])
          /\ \A i \in 1..(j - 1) : s[i] # LF
    /\ \E k \in 1..Len(s) :
          /\ \A i \in 1..k : FieldNameClass(s[i])
          /\ DollarAt(s, k)

MatchFieldNameRegex(s) == MatchCreateNameRegex(s)
MatchQuestionNameRegex(s) == MatchCreateNameRegex(s)
MatchMetadataPropertyNameRegex(s) == MatchCreateNameRegex(s)

(***************************************************************************)
(* constr(regex, min_length, max_length): the length validator runs first  *)
(* and the regex only on a string of allowed length; the first failure is  *)
(* the field's error.                                                      *)
(***************************************************************************)
ConstrErrors(loc, s, minLen, maxLen, matches) ==
    IF Len(s) < minLen THEN {Error(loc, "value_error.any_str.min_length")}
    ELSE IF Len(s) > maxLen THEN {Error(loc, "value_error.any_str.max_length")}
    ELSE IF ~matches THEN {Error(loc, "value_error.str.regex")}
    ELSE {}

DatasetName(loc, s) ==
    ConstrErrors(loc, s, DATASET_NAME_MIN_LENGTH, DATASET_NAME_MAX_LENGTH,
                 MatchDatasetNameRegex(s))

FieldName(loc, s) ==
    ConstrErrors(loc, s, FIELD_CREATE_NAME_MIN_LENGTH, FIELD_CREATE_NAME_MAX_LENGTH,
                 MatchFieldNameRegex(s))

QuestionName(loc, s) ==
    ConstrErrors(loc, s, QUESTION_CREATE_NAME_MIN_LENGTH, QUESTION_CREATE_NAME_MAX_LENGTH,
                 MatchQuestionNameRegex(s))

MetadataPropertyName(loc, s) ==
    ConstrErrors(loc, s, METADATA_PROPERTY_CREATE_NAME_MIN_LENGTH,
                 METADATA_PROPERTY_CREATE_NAME_MAX_LENGTH,
                 MatchMetadataPropertyNameRegex(s))

(***************************************************************************)
(* DatasetCreate / DatasetUpdate.  The payload's other fields (guidelines, *)
(* allow_extra_metadata, workspace_id) are held valid.  In DatasetUpdate   *)
(* the name is Optional: a name that is not given is not validated.        *)
(***************************************************************************)
DatasetCreate(p) == Result(DatasetName(<<"name">>, p.name))

DatasetUpdate(p) ==
    Result(IF IsNone(p.name) THEN {} ELSE DatasetName(<<"name">>, Get(p.name)))

(***************************************************************************)
(* JSON scalars of a payload, and pydantic's coercions of them.  A scalar  *)
(* is an integer or a string; int fields take a string of decimal digits   *)
(* (int(v)), str fields take an integer (str(v)).                          *)
(***************************************************************************)
JsonInt(n) == [t |-> "int", n |-> n, s |-> <<>>]
JsonStr(s) == [t |-> "str", n |-> 0, s |-> s]

RECURSIVE DigitsToInt(_)
DigitsToInt(s) ==
    IF s = <<>> THEN 0
    ELSE 10 * DigitsToInt(SubSeq(s, 1, Len(s) - 1)) + (s[Len(s)] - DIGIT0)

RECURSIVE NatToDigits(_)
NatToDigits(n) ==
    IF n < 10 THEN <<DIGIT0 + n>>
    ELSE Append(NatToDigits(n \div 10), DIGIT0 + (n % 10))

\* int_validator: Some(n), or None when the value is no integer
IntValidator(j) ==
    IF j.t = "int" THEN Some(j.n)
    ELSE IF j.s # <<>> /\ \A i \in 1..Len(j.s) : IsDigit(j.s[i])
         THEN Some(DigitsToInt(j.s))
         ELSE None

\* str_validator
StrValidator(j) ==
    IF j.t = "str" THEN j.s
    ELSE IF j.n < 0 THEN <<HYPHEN>> \o NatToDigits(-j.n) ELSE NatToDigits(j.n)

\* loc of the item at position i (1-based here, 0-based in pydantic)
At(loc, i) == Append(loc, ToString(i - 1))

(***************************************************************************)
(* UniqueValuesCheckerMixin.check_unique_values: the loop over the         *)
(* validated option values with its two sets, seen and duplicates.         *)
(***************************************************************************)
\* `seen` when the loop reaches position i: the values before it
Seen(values, i) == {values[j] : j \in 1..(i - 1)}

\* `duplicates` after the loop: every value met while already in `seen`
CollectDuplicates(values) ==
    {values[i] : i \in {k \in 1..Len(values) : values[k] \in Seen(values, k)}}

\* check_unique_values raising at the first value met again
check_unique_values_first_only(values) ==
    LET options == IF "options" \in values.has THEN values.options ELSE <<>>
        again == {k \in 1..Len(options) : options[k] \in Seen(options, k)}
    IN  IF again # {}
        THEN LET first == CHOOSE i \in again : \A k \in again : i <= k
             IN  {ErrorCtx(<<"__root__">>, "value_error.unique_values", {options[first]})}
        ELSE {}

\* values: the root validator's `values` dict: [has |-> fields that passed,
\* options |-> validated option values]; values.get("options", [])
check_unique_values(values) ==
    LET options == IF "options" \in values.has THEN values.options ELSE <<>>
        duplicates == CollectDuplicates(options)
    IN  IF duplicates # {}
        THEN {ErrorCtx(<<"__root__">>, "value_error.unique_values", duplicates)}
        ELSE {}

(***************************************************************************)
(* conlist(item_type, min_items, max_items): list_length_validator is a    *)
(* pre-validator of the field, so a list of the wrong length is reported   *)
(* and its items are not validated.                                        *)
(***************************************************************************)
\* the length check with the upper limit excluded
ListLengthErrors_max_excluded(loc, xs, minItems, maxItems) ==
    IF Len(xs) < minItems THEN {Error(loc, "value_error.list.min_items")}
    ELSE IF Len(xs) >= maxItems THEN {Error(loc, "value_error.list.max_items")}
    ELSE {}

ListLengthErrors(loc, xs, minItems, maxItems) ==
    IF Len(xs) < minItems THEN {Error(loc, "value_error.list.min_items")}
    ELSE IF Len(xs) > maxItems THEN {Error(loc, "value_error.list.max_items")}
    ELSE {}

(***************************************************************************)
(* RatingQuestionSettingsOption / RatingQuestionSettingsCreate.            *)
(* A settings payload is [type, options, visible_options]: type and        *)
(* options are Optional (None: the key is missing), options is a list of   *)
(* [value, text] with text Optional, visible_options is an Optional int.   *)
(* Keys a variant does not declare are ignored by it.                      *)
(***************************************************************************)
LiteralTypeErrors(loc, type, literal) ==
    IF IsNone(type) THEN {Error(Append(loc, "type"), "value_error.missing")}
    ELSE IF Get(type) # literal THEN {Error(Append(loc, "type"), "value_error.const")}
    ELSE {}

RatingQuestionSettingsOption(loc, o) ==
    IF IsNone(IntValidator(o.value))
    THEN {Error(Append(loc, "value"), "type_error.integer")}
    ELSE {}

\* check_option_value_range with the upper limit excluded
check_option_value_range_upper_excluded(loc, value) ==
    LET bad == {i \in 1..Len(value) :
                  ~(RATING_LOWER_VALUE_ALLOWED <= value[i]
                    /\ value[i] < RATING_UPPER_VALUE_ALLOWED)}
    IN  IF bad # {}
        THEN LET first == CHOOSE i \in bad : \A k \in bad : i <= k
             IN  {ErrorCtx(loc, "value_error.out_of_range", {value[first]})}
        ELSE {}

\* @validator("options"): the first option out of range raises
check_option_value_range(loc, value) ==
    LET bad == {i \in 1..Len(value) :
                  ~(RATING_LOWER_VALUE_ALLOWED <= value[i]
                    /\ value[i] <= RATING_UPPER_VALUE_ALLOWED)}
    IN  IF bad # {}
        THEN LET first == CHOOSE i \in bad : \A k \in bad : i <= k
             IN  {ErrorCtx(loc, "value_error.out_of_range", {value[first]})}
        ELSE {}

RatingOptionsErrors(loc, p) ==
    IF IsNone(p.options) THEN {Error(loc, "value_error.missing")}
    ELSE LET xs == Get(p.options)
             lengthErrors == ListLengthErrors(loc, xs, RATING_OPTIONS_MIN_ITEMS,
                                              RATING_OPTIONS_MAX_ITEMS)
             itemErrors == UNION {RatingQuestionSettingsOption(At(loc, i), xs[i]) :
                                    i \in 1..Len(xs)}
         IN  IF lengthErrors # {} THEN lengthErrors
             ELSE IF itemErrors # {} THEN itemErrors
             ELSE check_option_value_range(
                      loc, [i \in 1..Len(xs) |-> Get(IntValidator(xs[i].value))])

RatingQuestionSettingsCreate(loc, p) ==
    LET typeErrors == LiteralTypeErrors(loc, p.type, "rating")
        optionsErrors == RatingOptionsErrors(Append(loc, "options"), p)
        values == [has |-> IF optionsErrors = {} THEN {"options"} ELSE {},
                   options |-> IF optionsErrors = {}
                               THEN [i \in 1..Len(Get(p.options)) |->
                                       Get(IntValidator(Get(p.options)[i].value))]
                               ELSE <<>>]
    IN  Result(typeErrors \cup optionsErrors
               \cup Prefix(loc, check_unique_values(values)))

(***************************************************************************)
(* ValueTextQuestionSettingsOption: value is a str of 1..200 characters,   *)
(* text a required str of 1..500 characters (description is held absent).  *)
(***************************************************************************)
ValueTextQuestionSettingsOption(loc, o) ==
    LET value == StrValidator(o.value)
    IN  ConstrErrors(Append(loc, "value"), value, VALUE_TEXT_OPTION_VALUE_MIN_LENGTH,
                     VALUE_TEXT_OPTION_VALUE_MAX_LENGTH, TRUE)
        \cup (IF IsNone(o.text) THEN {Error(Append(loc, "text"), "value_error.missing")}
              ELSE ConstrErrors(Append(loc, "text"), Get(o.text),
                                VALUE_TEXT_OPTION_TEXT_MIN_LENGTH,
                                VALUE_TEXT_OPTION_TEXT_MAX_LENGTH, TRUE))

ValueTextOptionsErrors(loc, p, minItems, maxItems) ==
    IF IsNone(p.options) THEN {Error(loc, "value_error.missing")}
    ELSE LET xs == Get(p.options)
             lengthErrors == ListLengthErrors(loc, xs, minItems, maxItems)
         IN  IF lengthErrors # {} THEN lengthErrors
             ELSE UNION {ValueTextQuestionSettingsOption(At(loc, i), xs[i]) :
                           i \in 1..Len(xs)}

\* the root validators' `values`: the fields that passed, with their values
ValueTextValues(p, optionsErrors, visibleErrors) ==
    [has |-> (IF optionsErrors = {} THEN {"options"} ELSE {})
             \cup (IF visibleErrors = {} THEN {"visible_options"} ELSE {}),
     options |-> IF optionsErrors = {}
                 THEN [i \in 1..Len(Get(p.options)) |->
                         StrValidator(Get(p.options)[i].value)]
                 ELSE <<>>,
     visible_options |-> IF visibleErrors = {} THEN p.visible_options ELSE None]

\* visible_options: Optional[int] = PydanticField(None, ge=3)
VisibleOptionsErrors(loc, p) ==
    IF ~IsNone(p.visible_options)
       /\ ~(Get(p.visible_options) >= LABEL_SELECTION_MIN_VISIBLE_OPTIONS)
    THEN {Error(loc, "value_error.number.not_ge")}
    ELSE {}

(***************************************************************************)
(* LabelSelectionQuestionSettingsCreate.check_visible_options_value.       *)
(* values["options"] raises KeyError when the options field failed its     *)
(* own validation; pydantic collects ValueError, TypeError and             *)
(* AssertionError of a root validator only, so the KeyError escapes.       *)
(* The outcome is "ok", "ValueError" or "KeyError".                        *)
(***************************************************************************)
\* check_visible_options_value comparing with >= instead of >
check_visible_options_value_ge(values) ==
    LET visible_options == IF "visible_options" \in values.has
                           THEN values.visible_options ELSE None
    IN  IF ~IsNone(visible_options)
        THEN IF "options" \notin values.has THEN "KeyError"
             ELSE IF Get(visible_options) >= Len(values.options) THEN "ValueError"
             ELSE "ok"
        ELSE "ok"

check_visible_options_value(values) ==
    LET visible_options == IF "visible_options" \in values.has
                           THEN values.visible_options ELSE None
    IN  IF ~IsNone(visible_options)
        THEN IF "options" \notin values.has THEN "KeyError"
             ELSE IF Get(visible_options) > Len(values.options) THEN "ValueError"
             ELSE "ok"
        ELSE "ok"

\* an exception that is not collected into the error report
Raise(exception) == [outcome |-> exception, errors |-> {}]

LabelSelectionSettings(loc, p, literal) ==
    LET typeErrors == LiteralTypeErrors(loc, p.type, literal)
        optionsErrors == ValueTextOptionsErrors(Append(loc, "options"), p,
                                                LABEL_SELECTION_OPTIONS_MIN_ITEMS,
                                                LABEL_SELECTION_OPTIONS_MAX_ITEMS)
        visibleErrors == VisibleOptionsErrors(Append(loc, "visible_options"), p)
        values == ValueTextValues(p, optionsErrors, visibleErrors)
        unique == Prefix(loc, check_unique_values(values))
        visible == check_visible_options_value(values)
    IN  IF visible = "KeyError" THEN Raise("KeyError")
        ELSE Result(typeErrors \cup optionsErrors \cup visibleErrors \cup unique
                    \cup (IF visible = "ValueError"
                          THEN {Error(Append(loc, "__root__"), "value_error.visible_options")}
                          ELSE {}))

LabelSelectionQuestionSettingsCreate(loc, p) ==
    LabelSelectionSettings(loc, p, "label_selection")

MultiLabelSelectionQuestionSettingsCreate(loc, p) ==
    LabelSelectionSettings(loc, p, "multi_label_selection")

RankingQuestionSettingsCreate(loc, p) ==
    LET typeErrors == LiteralTypeErrors(loc, p.type, "ranking")
        optionsErrors == ValueTextOptionsErrors(Append(loc, "options"), p,
                                                RANKING_OPTIONS_MIN_ITEMS,
                                                RANKING_OPTIONS_MAX_ITEMS)
        values == ValueTextValues(p, optionsErrors, {})
    IN  Result(typeErrors \cup optionsErrors
               \cup Prefix(loc, check_unique_values(values)))

\* use_markdown: bool = False is held valid
TextQuestionSettingsCreate(loc, p) ==
    Result(LiteralTypeErrors(loc, p.type, "text"))

(***************************************************************************)
(* QuestionSettingsCreate: the union discriminated by "type".  pydantic    *)
(* reads the discriminator, looks the variant up, and validates the        *)
(* payload with that variant alone, under the variant's name.              *)
(***************************************************************************)
QuestionTypes == {"text", "rating", "label_selection", "multi_label_selection", "ranking"}

\* the union taking a payload with an unknown tag as text settings
QuestionSettingsCreate_default_text(loc, p) ==
    IF IsNone(p.type)
    THEN Result({Error(loc, "value_error.discriminated_union.missing_discriminator")})
    ELSE IF Get(p.type) = "rating"
    THEN RatingQuestionSettingsCreate(Append(loc, "RatingQuestionSettingsCreate"), p)
    ELSE IF Get(p.type) = "label_selection"
    THEN LabelSelectionQuestionSettingsCreate(
             Append(loc, "LabelSelectionQuestionSettingsCreate"), p)
    ELSE IF Get(p.type) = "multi_label_selection"
    THEN MultiLabelSelectionQuestionSettingsCreate(
             Append(loc, "MultiLabelSelectionQuestionSettingsCreate"), p)
    ELSE IF Get(p.type) = "ranking"
    THEN RankingQuestionSettingsCreate(Append(loc, "RankingQuestionSettingsCreate"), p)
    ELSE Result({})

QuestionSettingsCreate(loc, p) ==
    IF IsNone(p.type)
    THEN Result({Error(loc, "value_error.discriminated_union.missing_discriminator")})
    ELSE IF Get(p.type) \notin QuestionTypes
    THEN Result({Error(loc, "value_error.discriminated_union.invalid_discriminator")})
    ELSE CASE Get(p.type) = "text" ->
                TextQuestionSettingsCreate(Append(loc, "TextQuestionSettingsCreate"), p)
           [] Get(p.type) = "rating" ->
                RatingQuestionSettingsCreate(Append(loc, "RatingQuestionSettingsCreate"), p)
           [] Get(p.type) = "label_selection" ->
                LabelSelectionQuestionSettingsCreate(
                    Append(loc, "LabelSelectionQuestionSettingsCreate"), p)
           [] Get(p.type) = "multi_label_selection" ->
                MultiLabelSelectionQuestionSettingsCreate(
                    Append(loc, "MultiLabelSelectionQuestionSettingsCreate"), p)
           [] Get(p.type) = "ranking" ->
                RankingQuestionSettingsCreate(Append(loc, "RankingQuestionSettingsCreate"), p)

(***************************************************************************)
(* Metadata property settings.  A payload is [type, min, max, values];     *)
(* min and max are Optional numbers.  A number is [nan, v]: a float may    *)
(* be NaN, which compares False with everything.                           *)
(***************************************************************************)
Num(v) == [nan |-> FALSE, v |-> v]
NaN == [nan |-> TRUE, v |-> 0]

\* Python's a > b
Gt(a, b) == ~a.nan /\ ~b.nan /\ a.v > b.v

\* Python's a >= b
Ge(a, b) == ~a.nan /\ ~b.nan /\ a.v >= b.v

\* check_bounds comparing with > instead of >=
check_bounds_gt(values) ==
    IF ~IsNone(values.min) /\ ~IsNone(values.max) /\ Gt(Get(values.min), Get(values.max))
    THEN {Error(<<"__root__">>, "value_error.bounds")}
    ELSE {}

\* NumericMetadataProperty.check_bounds: min and max are fields without
\* constraints, so both are in `values`
check_bounds(values) ==
    IF ~IsNone(values.min) /\ ~IsNone(values.max) /\ Ge(Get(values.min), Get(values.max))
    THEN {Error(<<"__root__">>, "value_error.bounds")}
    ELSE {}

IntegerMetadataPropertyCreate(loc, p) ==
    Result(LiteralTypeErrors(loc, p.type, "integer")
           \cup Prefix(loc, check_bounds([min |-> p.min, max |-> p.max])))

FloatMetadataPropertyCreate(loc, p) ==
    Result(LiteralTypeErrors(loc, p.type, "float")
           \cup Prefix(loc, check_bounds([min |-> p.min, max |-> p.max])))

\* values: Optional[List[str]] with min_items and max_items
TermsMetadataPropertyCreate(loc, p) ==
    Result(LiteralTypeErrors(loc, p.type, "terms")
           \cup (IF IsNone(p.values) THEN {}
                 ELSE ListLengthErrors(Append(loc, "values"), Get(p.values),
                                       TERMS_METADATA_PROPERTY_VALUES_MIN_ITEMS,
                                       TERMS_METADATA_PROPERTY_VALUES_MAX_ITEMS)))

MetadataPropertyTypes == {"terms", "integer", "float"}

MetadataPropertySettingsCreate(loc, p) ==
    IF IsNone(p.type)
    THEN Result({Error(loc, "value_error.discriminated_union.missing_discriminator")})
    ELSE IF Get(p.type) \notin MetadataPropertyTypes
    THEN Result({Error(loc, "value_error.discriminated_union.invalid_discriminator")})
    ELSE CASE Get(p.type) = "terms" ->
                TermsMetadataPropertyCreate(Append(loc, "TermsMetadataPropertyCreate"), p)
           [] Get(p.type) = "integer" ->
                IntegerMetadataPropertyCreate(Append(loc, "IntegerMetadataPropertyCreate"), p)
           [] Get(p.type) = "float" ->
                FloatMetadataPropertyCreate(Append(loc, "FloatMetadataPropertyCreate"), p)

(***************************************************************************)
(* FieldCreate, QuestionCreate, MetadataPropertyCreate.  A payload is      *)
(* [name, title, description, settings] with name and title Optional       *)
(* (None: the key is missing); required and visible_for_annotators are     *)
(* held valid.  Every field is validated and every error is collected;     *)
(* an exception escaping the settings escapes the whole validation.        *)
(***************************************************************************)
Required(loc, o) == IF IsNone(o) THEN {Error(loc, "value_error.missing")} ELSE {}

FieldTitle(loc, s) ==
    ConstrErrors(loc, s, FIELD_CREATE_TITLE_MIN_LENGTH, FIELD_CREATE_TITLE_MAX_LENGTH, TRUE)

QuestionTitle(loc, s) ==
    ConstrErrors(loc, s, QUESTION_CREATE_TITLE_MIN_LENGTH, QUESTION_CREATE_TITLE_MAX_LENGTH,
                 TRUE)

QuestionDescription(loc, s) ==
    ConstrErrors(loc, s, QUESTION_CREATE_DESCRIPTION_MIN_LENGTH,
                 QUESTION_CREATE_DESCRIPTION_MAX_LENGTH, TRUE)

MetadataPropertyTitle(loc, s) ==
    ConstrErrors(loc, s, METADATA_PROPERTY_CREATE_TITLE_MIN_LENGTH,
                 METADATA_PROPERTY_CREATE_TITLE_MAX_LENGTH, TRUE)

\* TextFieldSettings: type: Literal[FieldType.text]
TextFieldSettings(loc, p) == LiteralTypeErrors(loc, p.type, "text")

FieldCreate(p) ==
    Result((IF IsNone(p.name) THEN Required(<<"name">>, p.name)
            ELSE FieldName(<<"name">>, Get(p.name)))
           \cup (IF IsNone(p.title) THEN Required(<<"title">>, p.title)
                 ELSE FieldTitle(<<"title">>, Get(p.title)))
           \cup TextFieldSettings(<<"settings">>, p.settings))

QuestionCreate(p) ==
    LET settings == QuestionSettingsCreate(<<"settings">>, p.settings)
    IN  IF settings.outcome = "KeyError" THEN Raise("KeyError")
        ELSE Result((IF IsNone(p.name) THEN Required(<<"name">>, p.name)
                     ELSE QuestionName(<<"name">>, Get(p.name)))
                    \cup (IF IsNone(p.title) THEN Required(<<"title">>, p.title)
                          ELSE QuestionTitle(<<"title">>, Get(p.title)))
                    \cup (IF IsNone(p.description) THEN {}
                          ELSE QuestionDescription(<<"description">>, Get(p.description)))
                    \cup settings.errors)

MetadataPropertyCreate(p) ==
    Result((IF IsNone(p.name) THEN Required(<<"name">>, p.name)
            ELSE MetadataPropertyName(<<"name">>, Get(p.name)))
           \cup (IF IsNone(p.title) THEN Required(<<"title">>, p.title)
                 ELSE MetadataPropertyTitle(<<"title">>, Get(p.title)))
           \cup MetadataPropertySettingsCreate(<<"settings">>, p.settings).errors)

(***************************************************************************)
(* UserResponseCreate: the union of UserSubmittedResponseCreate and        *)
(* UserDiscardedResponseCreate discriminated by "status".  A response      *)
(* payload is [user_id, values, status]: user_id is the text of a UUID,    *)
(* [n, form], which UUID() parses to the UUID n whatever the letter case   *)
(* of its hex digits and fails on when malformed; values is "missing",     *)
(* "null", "mapping" (a mapping of question name to value wrapper) or     *)
(* "scalar" (a JSON value that is no mapping); status is Optional.         *)
(***************************************************************************)
UuidText(n, form) == [n |-> n, form |-> form]

\* uuid_validator: Some(the UUID), or None when the text is no UUID
UUIDValidator(u) == IF u.form = "malformed" THEN None ELSE Some(u.n)

UserIdErrors(loc, r) ==
    IF IsNone(UUIDValidator(r.user_id))
    THEN {Error(Append(loc, "user_id"), "type_error.uuid")}
    ELSE {}

\* UserSubmittedResponseCreate with values: Optional[Dict[...]]
UserSubmittedResponseCreate_optional_values(loc, r) ==
    UserIdErrors(loc, r)
    \cup (IF r.values = "scalar" THEN {Error(Append(loc, "values"), "type_error.dict")}
          ELSE {})

\* values: Dict[str, ResponseValueCreate]
UserSubmittedResponseCreate(loc, r) ==
    UserIdErrors(loc, r)
    \cup (IF r.values = "missing" THEN {Error(Append(loc, "values"), "value_error.missing")}
          ELSE IF r.values = "null"
          THEN {Error(Append(loc, "values"), "type_error.none.not_allowed")}
          ELSE IF r.values = "scalar" THEN {Error(Append(loc, "values"), "type_error.dict")}
          ELSE {})

\* values: Optional[Dict[str, ResponseValueCreate]]
UserDiscardedResponseCreate(loc, r) ==
    UserIdErrors(loc, r)
    \cup (IF r.values = "scalar" THEN {Error(Append(loc, "values"), "type_error.dict")}
          ELSE {})

ResponseCreateStatuses == {"submitted", "discarded"}

\* UserResponseCreate validating every status but submitted as a discarded
\* response
UserResponseCreate_status_unchecked(loc, r) ==
    IF IsNone(r.status)
    THEN {Error(loc, "value_error.discriminated_union.missing_discriminator")}
    ELSE IF Get(r.status) = "submitted"
    THEN UserSubmittedResponseCreate(Append(loc, "UserSubmittedResponseCreate"), r)
    ELSE UserDiscardedResponseCreate(Append(loc, "UserDiscardedResponseCreate"), r)

UserResponseCreate(loc, r) ==
    IF IsNone(r.status)
    THEN {Error(loc, "value_error.discriminated_union.missing_discriminator")}
    ELSE IF Get(r.status) \notin ResponseCreateStatuses
    THEN {Error(loc, "value_error.discriminated_union.invalid_discriminator")}
    ELSE IF Get(r.status) = "submitted"
    THEN UserSubmittedResponseCreate(Append(loc, "UserSubmittedResponseCreate"), r)
    ELSE UserDiscardedResponseCreate(Append(loc, "UserDiscardedResponseCreate"), r)

(***************************************************************************)
(* RecordCreate.  A payload is [fields, responses]: fields is "missing"    *)
(* or "mapping", responses an Optional list of response payloads;          *)
(* metadata, external_id and suggestions are held absent.                  *)
(***************************************************************************)
\* the loop of check_user_id_is_unique over the validated responses: the
\* list user_ids when the loop reaches position i
user_ids(values, i) == {values[j] : j \in 1..(i - 1)}

\* check_user_id_is_unique comparing each user_id with the one before it only
check_user_id_is_unique_adjacent(loc, values) ==
    LET again == {i \in 2..Len(values) : values[i] = values[i - 1]}
    IN  IF again # {}
        THEN LET first == CHOOSE i \in again : \A k \in again : i <= k
             IN  {ErrorCtx(loc, "value_error.duplicate_user_id", {values[first]})}
        ELSE {}

\* @validator("responses"): raises at the first user_id met again
check_user_id_is_unique(loc, values) ==
    LET again == {i \in 1..Len(values) : values[i] \in user_ids(values, i)}
    IN  IF again # {}
        THEN LET first == CHOOSE i \in again : \A k \in again : i <= k
             IN  {ErrorCtx(loc, "value_error.duplicate_user_id", {values[first]})}
        ELSE {}

\* the validator is not called for None, nor when a response is invalid
ResponsesErrors(loc, responses) ==
    IF IsNone(responses) THEN {}
    ELSE LET rs == Get(responses)
             itemErrors == UNION {UserResponseCreate(At(loc, i), rs[i]) : i \in 1..Len(rs)}
         IN  IF itemErrors # {} THEN itemErrors
             ELSE check_user_id_is_unique(
                      loc, [i \in 1..Len(rs) |-> Get(UUIDValidator(rs[i].user_id))])

RecordCreateErrors(loc, p) ==
    (IF p.fields = "missing" THEN {Error(Append(loc, "fields"), "value_error.missing")}
     ELSE {})
    \cup ResponsesErrors(Append(loc, "responses"), p.responses)

RecordCreate(p) == Result(RecordCreateErrors(<<>>, p))

(***************************************************************************)
(* RecordsCreate / RecordsUpdate: items with min_items and max_items.      *)
(* The length check is a pre-validator of the list.                        *)
(***************************************************************************)
RecordsCreate(p) ==
    LET lengthErrors == ListLengthErrors(<<"items">>, p.items, RECORDS_CREATE_MIN_ITEMS,
                                         RECORDS_CREATE_MAX_ITEMS)
    IN  Result(IF lengthErrors # {} THEN lengthErrors
               ELSE UNION {RecordCreateErrors(At(<<"items">>, i), p.items[i]) :
                             i \in 1..Len(p.items)})

\* RecordUpdate (argilla.server.schemas.v1.records): an update payload is
\* valid or not
RecordUpdate(loc, u) ==
    IF ~u.valid THEN {Error(loc, "value_error")} ELSE {}

\* RecordUpdateWithId: RecordUpdate with id: UUID
RecordUpdateWithId(loc, u) ==
    RecordUpdate(loc, u)
    \cup (IF IsNone(UUIDValidator(u.id)) THEN {Error(Append(loc, "id"), "type_error.uuid")}
          ELSE {})

RecordsUpdate(p) ==
    LET lengthErrors == ListLengthErrors(<<"items">>, p.items, RECORDS_UPDATE_MIN_ITEMS,
                                         RECORDS_UPDATE_MAX_ITEMS)
    IN  Result(IF lengthErrors # {} THEN lengthErrors
               ELSE UNION {RecordUpdateWithId(At(<<"items">>, i), p.items[i]) :
                             i \in 1..Len(p.items)})

(***************************************************************************)
(* Record (orm_mode, getter_dict = RecordGetterDict).  The storage object  *)
(* is [metadata_, responses, suggestions, loaded]: loaded is the set of    *)
(* relations is_relationship_loaded reports as loaded.  from_orm asks the  *)
(* getter for every field with a `missing` sentinel as the default; a      *)
(* field that comes back missing takes the field's default, None.          *)
(***************************************************************************)
Missing == <<"missing">>

\* RecordGetterDict.get asking for the load state of "responses" for both
\* relations
RecordGetterDict_get_responses_only(obj, key, default) ==
    IF key = "metadata" THEN <<"value", obj.metadata_>>
    ELSE IF key = "responses" /\ "responses" \notin obj.loaded THEN default
    ELSE IF key = "suggestions" /\ "responses" \notin obj.loaded THEN default
    ELSE <<"value", obj[key]>>

\* RecordGetterDict.get(key, default): <<"missing">> stands for the default
RecordGetterDict_get(obj, key, default) ==
    IF key = "metadata" THEN <<"value", obj.metadata_>>
    ELSE IF key = "responses" /\ "responses" \notin obj.loaded THEN default
    ELSE IF key = "suggestions" /\ "suggestions" \notin obj.loaded THEN default
    ELSE <<"value", obj[key]>>

\* the value of an Optional[List[...]] field of the read model
RecordField(obj, key) ==
    LET got == RecordGetterDict_get(obj, key, Missing)
    IN  IF got = Missing THEN None ELSE Some(got[2])

\* Record.from_orm(obj), serialized: None is null, Some(xs) is the list xs
Record(obj) ==
    [outcome |-> "accepted", errors |-> {},
     metadata |-> RecordGetterDict_get(obj, "metadata", Missing)[2],
     responses |-> RecordField(obj, "responses"),
     suggestions |-> RecordField(obj, "suggestions")]

(***************************************************************************)
(* Response (orm_mode), the read model of a response.  A stored response   *)
(* is [values, status]; id, user_id and the timestamps are held valid.     *)
(* status: ResponseStatus is validated against the members of the enum     *)
(* (argilla.server.models).                                                *)
(***************************************************************************)
ResponseStatus == {"draft", "submitted", "discarded"}

\* values: Optional[Dict[str, ResponseValue]]; status: ResponseStatus
Response(row) ==
    Result(IF row.status \notin ResponseStatus
           THEN {Error(<<"status">>, "type_error.enum")}
           ELSE {})

(***************************************************************************)
(* MetadataParsedQueryParam / MetadataQueryParams.metadata_parsed.         *)
(***************************************************************************)
\* str.isspace(), the characters str.strip() removes
IsSpace(c) ==
    \/ c \in 9..13 \/ c \in 28..32 \/ c = 133 \/ c = 160
    \/ c = 5760 \/ c \in 8192..8202 \/ c \in {8232, 8233, 8239, 8287, 12288}

\* str.strip()
Strip(s) ==
    LET kept == {i \in 1..Len(s) : ~IsSpace(s[i])}
    IN  IF kept = {} THEN <<>>
        ELSE SubSeq(s, CHOOSE i \in kept : \A k \in kept : i <= k,
                       CHOOSE i \in kept : \A k \in kept : i >= k)

\* string.rsplit(":", maxsplit=1): the split at the last colon
SplitOnceFromRight(s) ==
    LET colons == {i \in 1..Len(s) : s[i] = COLON}
    IN  IF colons = {} THEN <<s>>
        ELSE LET c == CHOOSE i \in colons : \A k \in colons : i >= k
             IN  <<SubSeq(s, 1, c - 1), SubSeq(s, c + 1, Len(s))>>

\* string.split(":", maxsplit=1): one or two parts
SplitOnce(s) ==
    LET colons == {i \in 1..Len(s) : s[i] = COLON}
    IN  IF colons = {} THEN <<s>>
        ELSE LET c == CHOOSE i \in colons : \A k \in colons : i <= k
             IN  <<SubSeq(s, 1, c - 1), SubSeq(s, c + 1, Len(s))>>

\* "".join(v)
Join(parts) == IF parts = <<>> THEN <<>> ELSE parts[1]

\* k, *v = string.split(":", maxsplit=1); name = k; value = "".join(v).strip()
MetadataParsedQueryParam(string) ==
    LET parts == SplitOnce(string)
        k == Head(parts)
        v == Tail(parts)
    IN  [name |-> k, value |-> Strip(Join(v))]

\* [MetadataParsedQueryParam(q) for q in self.metadata]
metadata_parsed(metadata) ==
    [outcome |-> "accepted", errors |-> {},
     parsed |-> [i \in 1..Len(metadata) |-> MetadataParsedQueryParam(metadata[i])]]

(***************************************************************************)
(* Payloads.                                                               *)
(***************************************************************************)
\* "a", "A", "0", "-", "_", " ", "\n" and "!"
NameAlphabet == {LOWER_A, UPPER_A, DIGIT0, HYPHEN, UNDERSCORE, SPACE, LF, 33}

\* short names over the alphabet, and names at the length limits
Names ==
    StringsUpTo(NameAlphabet, MaxNameLen)
    \cup {Repeat(LOWER_A, n) : n \in {199, 200, 201}}
    \cup {Repeat(LOWER_A, n) \o <<LF>> : n \in {199, 200}}
    \cup {Repeat(HYPHEN, 199) \o <<DIGIT0>>, Repeat(SPACE, 200), Repeat(HYPHEN, 200)}

\* an option of a payload, with a one-letter text
Option(value) == [value |-> value, text |-> Some(<<LOWER_A>>)]

ListsUpTo(S, n) == UNION {[1..k -> S] : k \in 0..n}

\* rating options: integers around the allowed range, a numeric string, a word
RatingOptions ==
    {Option(JsonInt(n)) : n \in {0, 1, 2, RATING_UPPER_VALUE_ALLOWED,
                                 RATING_UPPER_VALUE_ALLOWED + 1}}
    \cup {Option(JsonStr(<<DIGIT0 + 1>>)), Option(JsonStr(<<LOWER_A>>))}

\* lists in which more than one value comes again
RepeatingRatingLists ==
    {<<Option(JsonInt(1)), Option(JsonInt(2)), Option(JsonInt(1)), Option(JsonInt(2))>>,
     <<Option(JsonInt(3)), Option(JsonInt(2)), Option(JsonInt(2)), Option(JsonInt(3)),
       Option(JsonInt(3)), Option(JsonInt(1))>>}

\* short option lists, and lists of distinct (and of repeating) values at
\* the item limits
RatingOptionLists ==
    ListsUpTo(RatingOptions, MaxOptions)
    \cup RepeatingRatingLists
    \cup {[i \in 1..n |-> Option(JsonInt(i))] :
            n \in (RATING_OPTIONS_MAX_ITEMS - 1)..(RATING_OPTIONS_MAX_ITEMS + 1)}
    \cup {[i \in 1..n |-> Option(JsonInt(((i - 1) % RATING_UPPER_VALUE_ALLOWED) + 1))] :
            n \in {RATING_OPTIONS_MAX_ITEMS + 1}}

SettingsPayload(type, options, visible_options) ==
    [type |-> type, options |-> options, visible_options |-> visible_options]

RatingPayloads ==
    {SettingsPayload(Some("rating"), Some(xs), None) : xs \in RatingOptionLists}
    \cup {SettingsPayload(t, o, None) :
            t \in {None, Some("ranking")},
            o \in {None, Some(<<Option(JsonInt(1)), Option(JsonInt(2))>>),
                   Some(<<Option(JsonInt(1)), Option(JsonInt(1))>>)}}
    \cup {SettingsPayload(Some("rating"), None, None)}

\* the i-th of a family of distinct two-letter option values
LabelValue(i) == JsonStr(<<LOWER_A + (i \div 26), LOWER_A + (i % 26)>>)

ValueTextOptions ==
    {Option(v) : v \in {JsonStr(<<LOWER_A>>), JsonStr(<<UPPER_A>>), JsonStr(<<>>),
                        JsonStr(<<DIGIT0 + 1>>), JsonInt(1)}}
    \cup {[value |-> JsonStr(<<LOWER_A + 2>>), text |-> None]}

DistinctOptions(n) == [i \in 1..n |-> Option(LabelValue(i))]

\* lists in which more than one value comes again, and lists whose values
\* differ in letter case only
RepeatingValueTextLists ==
    {<<Option(JsonStr(<<LOWER_A>>)), Option(JsonStr(<<UPPER_A>>)),
       Option(JsonStr(<<LOWER_A>>)), Option(JsonStr(<<UPPER_A>>))>>,
     <<Option(JsonStr(<<UPPER_A>>)), Option(JsonStr(<<LOWER_A>>)),
       Option(JsonStr(<<LOWER_A + 1>>)), Option(JsonStr(<<LOWER_A>>)),
       Option(JsonStr(<<LOWER_A + 1>>)), Option(JsonStr(<<LOWER_A>>))>>,
     <<Option(JsonStr(<<LOWER_A>>)), Option(JsonStr(<<UPPER_A>>)),
       Option(JsonStr(<<LOWER_A, LOWER_A>>)), Option(JsonStr(<<LOWER_A, UPPER_A>>))>>}

\* short option lists with every small visible_options, and lists of
\* distinct (and of repeating) values with visible_options around their length
LabelPayloads(literal) ==
    {SettingsPayload(Some(literal), Some(xs), v) :
        xs \in ListsUpTo(ValueTextOptions, MaxOptions),
        v \in {None} \cup {Some(n) : n \in 2..(MaxOptions + 1)}}
    \cup {SettingsPayload(Some(literal), Some(xs), v) :
            xs \in {DistinctOptions(5), [i \in 1..5 |-> Option(LabelValue(i % 4))]},
            v \in {None, Some(2), Some(3), Some(5), Some(6)}}
    \cup {SettingsPayload(Some(literal), Some(DistinctOptions(n)), v) :
            n \in (LABEL_SELECTION_OPTIONS_MAX_ITEMS - 1)
                  ..(LABEL_SELECTION_OPTIONS_MAX_ITEMS + 1),
            v \in {None, Some(2), Some(LABEL_SELECTION_OPTIONS_MAX_ITEMS - 1),
                   Some(LABEL_SELECTION_OPTIONS_MAX_ITEMS),
                   Some(LABEL_SELECTION_OPTIONS_MAX_ITEMS + 1)}}
    \cup {SettingsPayload(t, o, v) :
            t \in {None, Some("rating"), Some(literal)},
            o \in {None, Some(DistinctOptions(3))},
            v \in {None, Some(2), Some(3)}}
    \cup {SettingsPayload(Some(literal), Some(xs), v) :
            xs \in RepeatingValueTextLists, v \in {None, Some(2), Some(4)}}

RankingOptionLists ==
    ListsUpTo(ValueTextOptions, MaxOptions)
    \cup RepeatingValueTextLists
    \cup {DistinctOptions(n) :
            n \in (RANKING_OPTIONS_MAX_ITEMS - 1)..(RANKING_OPTIONS_MAX_ITEMS + 1)}

RankingPayloads ==
    {SettingsPayload(Some("ranking"), Some(xs), None) : xs \in RankingOptionLists}
    \cup {SettingsPayload(t, None, None) : t \in {None, Some("text"), Some("ranking")}}

\* payloads of the union: every tag, known or not, over option lists that
\* some variants accept and others reject
UnionOptionLists ==
    {None, Some(<<>>),
     Some(<<Option(JsonInt(1)), Option(JsonInt(2))>>),
     Some(<<Option(JsonInt(1)), Option(JsonInt(1))>>),
     Some(<<Option(JsonInt(0)), Option(JsonInt(2))>>),
     Some(<<Option(JsonStr(<<LOWER_A>>)), Option(JsonStr(<<UPPER_A>>))>>),
     Some(<<Option(JsonStr(<<LOWER_A>>)), Option(JsonStr(<<LOWER_A>>))>>),
     Some(<<[value |-> JsonInt(1), text |-> None], [value |-> JsonInt(2), text |-> None]>>),
     Some(DistinctOptions(3)),
     Some(DistinctOptions(RATING_OPTIONS_MAX_ITEMS + 1)),
     Some(DistinctOptions(RANKING_OPTIONS_MAX_ITEMS + 1))}

SettingsTags ==
    {None} \cup {Some(t) : t \in QuestionTypes \cup {"terms", "draft", ""}}

QuestionSettingsPayloads ==
    {SettingsPayload(t, o, v) :
        t \in SettingsTags, o \in UnionOptionLists, v \in {None, Some(2), Some(3), Some(4)}}

\* metadata property settings
MetadataPayload(type, min, max, values) ==
    [type |-> type, min |-> min, max |-> max, values |-> values]

IntegerNumbers == {Num(v) : v \in (-1..MaxNumber) \cup {5, 6}}
FloatNumbers == IntegerNumbers \cup {NaN}

IntegerMetadataPayloads ==
    {MetadataPayload(t, mn, mx, None) :
        t \in {Some("integer")},
        mn \in {None} \cup {Some(n) : n \in IntegerNumbers},
        mx \in {None} \cup {Some(n) : n \in IntegerNumbers}}
    \cup {MetadataPayload(t, mn, Some(Num(1)), None) :
            t \in {None, Some("float")}, mn \in {None, Some(Num(0)), Some(Num(1))}}

FloatMetadataPayloads ==
    {MetadataPayload(t, mn, mx, None) :
        t \in {Some("float")},
        mn \in {None} \cup {Some(n) : n \in FloatNumbers},
        mx \in {None} \cup {Some(n) : n \in FloatNumbers}}
    \cup {MetadataPayload(t, mn, Some(Num(1)), None) :
            t \in {None, Some("integer")}, mn \in {None, Some(Num(0)), Some(Num(1))}}

TermsValues ==
    {None}
    \cup {Some(Repeat(<<LOWER_A>>, n)) :
            n \in {0, 1, 2, TERMS_METADATA_PROPERTY_VALUES_MAX_ITEMS,
                   TERMS_METADATA_PROPERTY_VALUES_MAX_ITEMS + 1}}

MetadataSettingsTags ==
    {None} \cup {Some(t) : t \in MetadataPropertyTypes \cup {"text", "rating", ""}}

MetadataSettingsPayloads ==
    {MetadataPayload(t, mn, mx, v) :
        t \in MetadataSettingsTags,
        mn \in {None, Some(Num(1)), Some(Num(2))},
        mx \in {None, Some(Num(1)), Some(Num(2))},
        v \in TermsValues}

\* titles and descriptions: absent, empty, short, and at the length limits
Titles ==
    {None, Some(<<>>), Some(<<LOWER_A>>)}
    \cup {Some(Repeat(LOWER_A, n)) : n \in {500, 501}}

Descriptions ==
    {None, Some(<<>>), Some(<<LOWER_A>>)}
    \cup {Some(Repeat(LOWER_A, n)) : n \in {1000, 1001}}

CreatePayload(name, title, description, settings) ==
    [name |-> name, title |-> title, description |-> description, settings |-> settings]

\* every name with the other fields valid, and a few names with every
\* combination of the other fields
FewNames == {None, Some(<<LOWER_A, HYPHEN, DIGIT0 + 1>>), Some(<<UPPER_A>>), Some(<<>>)}

FieldCreatePayloads ==
    {CreatePayload(Some(s), Some(<<LOWER_A>>), None, [type |-> Some("text")]) : s \in Names}
    \cup {CreatePayload(n, t, None, [type |-> ty]) :
            n \in FewNames, t \in Titles, ty \in {None, Some("text"), Some("rating")}}

FewQuestionSettings ==
    {SettingsPayload(Some("text"), None, None),
     SettingsPayload(None, None, None),
     SettingsPayload(Some("float"), None, None),
     SettingsPayload(Some("rating"), Some(<<Option(JsonInt(1)), Option(JsonInt(2))>>), None),
     SettingsPayload(Some("rating"), Some(<<Option(JsonInt(1)), Option(JsonInt(1))>>), None),
     SettingsPayload(Some("rating"), Some(<<Option(JsonInt(0))>>), None),
     SettingsPayload(Some("label_selection"), Some(DistinctOptions(3)), Some(3)),
     SettingsPayload(Some("label_selection"), Some(DistinctOptions(3)), Some(4)),
     SettingsPayload(Some("label_selection"), Some(DistinctOptions(1)), Some(3)),
     SettingsPayload(Some("multi_label_selection"), Some(DistinctOptions(1)), Some(2)),
     SettingsPayload(Some("ranking"), Some(DistinctOptions(2)), None)}

QuestionCreatePayloads ==
    {CreatePayload(Some(s), Some(<<LOWER_A>>), None, SettingsPayload(Some("text"), None, None)) :
        s \in Names}
    \cup {CreatePayload(n, t, d, st) :
            n \in FewNames, t \in Titles, d \in Descriptions, st \in FewQuestionSettings}

FewMetadataSettings ==
    {MetadataPayload(t, mn, Some(Num(1)), None) :
        t \in {None, Some("terms"), Some("integer"), Some("float"), Some("text")},
        mn \in {None, Some(Num(0)), Some(Num(1))}}

MetadataPropertyCreatePayloads ==
    {CreatePayload(Some(s), Some(<<LOWER_A>>), None,
                   MetadataPayload(Some("terms"), None, None, None)) : s \in Names}
    \cup {CreatePayload(n, t, None, st) :
            n \in FewNames, t \in Titles, st \in FewMetadataSettings}

\* responses: user 1 also writes its UUID in upper case
ResponsePayload(user_id, values, status) ==
    [user_id |-> user_id, values |-> values, status |-> status]

UserIds == {UuidText(n, "lower") : n \in 1..MaxUsers} \cup {UuidText(1, "upper")}

ValidResponses ==
    {ResponsePayload(u, "mapping", Some("submitted")) : u \in UserIds}
    \cup {ResponsePayload(u, "null", Some("discarded")) : u \in UserIds}

AnyResponses ==
    {ResponsePayload(u, v, st) :
        u \in {UuidText(1, "lower"), UuidText(1, "malformed")},
        v \in {"missing", "null", "mapping", "scalar"},
        st \in {None, Some("submitted"), Some("discarded"), Some("draft"), Some("ready")}}

RecordPayload(fields, responses) == [fields |-> fields, responses |-> responses]

\* lists of valid responses, and short lists that hold any response
RecordCreatePayloads ==
    {RecordPayload("mapping", Some(rs)) : rs \in ListsUpTo(ValidResponses, MaxResponses)}
    \cup {RecordPayload(f, rs) :
            f \in {"mapping", "missing"},
            rs \in {None} \cup {Some(<<r>>) : r \in AnyResponses}
                   \cup {Some(<<r, ResponsePayload(UuidText(1, "lower"), "null",
                                                   Some("discarded"))>>) :
                           r \in AnyResponses}}

GoodRecord == RecordPayload("mapping", None)

FewRecords ==
    {GoodRecord,
     RecordPayload("missing", None),
     RecordPayload("mapping",
                   Some(<<ResponsePayload(UuidText(1, "lower"), "mapping", Some("submitted")),
                          ResponsePayload(UuidText(2, "lower"), "null", Some("discarded"))>>)),
     RecordPayload("mapping",
                   Some(<<ResponsePayload(UuidText(1, "lower"), "mapping", Some("submitted")),
                          ResponsePayload(UuidText(1, "upper"), "null", Some("discarded"))>>)),
     RecordPayload("mapping",
                   Some(<<ResponsePayload(UuidText(1, "lower"), "mapping", Some("draft"))>>))}

\* short batches of any records, and batches at the item limits
RecordsCreatePayloads ==
    {[items |-> xs] : xs \in ListsUpTo(FewRecords, MaxItems)}
    \cup {[items |-> Repeat(r, n)] :
            r \in FewRecords,
            n \in (RECORDS_CREATE_MAX_ITEMS - 1)..(RECORDS_CREATE_MAX_ITEMS + 1)}
    \cup {[items |-> Append(Repeat(GoodRecord, RECORDS_CREATE_MAX_ITEMS - 1), r)] :
            r \in FewRecords}

UpdatePayload(id, valid) == [id |-> id, valid |-> valid]

GoodUpdate == UpdatePayload(UuidText(1, "lower"), TRUE)

FewUpdates ==
    {GoodUpdate, UpdatePayload(UuidText(1, "malformed"), TRUE),
     UpdatePayload(UuidText(2, "lower"), FALSE)}

RecordsUpdatePayloads ==
    {[items |-> xs] : xs \in ListsUpTo(FewUpdates, MaxItems)}
    \cup {[items |-> Repeat(u, n)] :
            u \in FewUpdates,
            n \in (RECORDS_UPDATE_MAX_ITEMS - 1)..(RECORDS_UPDATE_MAX_ITEMS + 1)}
    \cup {[items |-> Append(Repeat(GoodUpdate, RECORDS_UPDATE_MAX_ITEMS - 1), u)] :
            u \in FewUpdates}

\* storage objects: each relation holds up to MaxRelation rows, loaded or not
Relations == {"responses", "suggestions"}

StorageRecords ==
    {[metadata_ |-> m, responses |-> rs, suggestions |-> sg, loaded |-> ld] :
        m \in {None, Some(<<LOWER_A>>)},
        rs \in ListsUpTo(1..2, MaxRelation),
        sg \in ListsUpTo(1..2, MaxRelation),
        ld \in SUBSET Relations}

\* stored responses, of every status and of a status no response has
StorageResponses ==
    {[values |-> v, status |-> st] :
        v \in {"null", "mapping"}, st \in ResponseStatus \cup {"ready"}}

\* metadata filters: short strings, and the filters "color:red,blue",
\* "color: red", "a:\tb:c \n" and "\u00a0a : b,  c\u3000"
QueryAlphabet == {LOWER_A, COLON, COMMA, SPACE}

QueryStrings ==
    StringsUpTo(QueryAlphabet, MaxQueryLen)
    \cup {<<99, 111, 108, 111, 114, 58, 114, 101, 100, 44, 98, 108, 117, 101>>,
          <<99, 111, 108, 111, 114, 58, 32, 114, 101, 100>>,
          <<97, 58, 9, 98, 58, 99, 32, 10>>,
          <<160, 97, 32, 58, 32, 98, 44, 32, 32, 99, 12288>>}

MetadataQueries ==
    {<<>>} \cup {<<q>> : q \in QueryStrings}
    \cup {<<q, <<LOWER_A, COLON, LOWER_A>>>> : q \in StringsUpTo(QueryAlphabet, 2)}

(***************************************************************************)
(* The state machine.                                                      *)
(***************************************************************************)
Idle == op = "idle"

\* the threads that call validators at the same time
Threads == 1..MaxThreads

\* a validator call on a thread: where it stands (pc), which validator runs
\* (kind), its argument (values), the loop position (i), what it returned
NoCall == [pc |-> "idle", kind |-> "none", values |-> <<>>, i |-> 0, result |-> {}]

\* the local variables of a call: seen and duplicates of check_unique_values,
\* user_ids of check_user_id_is_unique
NewFrame == [seen |-> {}, duplicates |-> {}, user_ids |-> <<>>]

Init ==
    /\ op = "idle"
    /\ arg = <<>>
    /\ res = Result({})
    /\ calls = [t \in Threads |-> NoCall]
    /\ frames = [t \in Threads |-> NewFrame]

Return ==
    /\ ~Idle
    /\ UNCHANGED threads
    /\ op' = "idle"
    /\ arg' = <<>>
    /\ res' = Result({})

CreateDataset ==
    /\ Idle
    /\ UNCHANGED threads
    /\ \E s \in Names :
          /\ op' = "DatasetCreate"
          /\ arg' = [name |-> s]
          /\ res' = DatasetCreate([name |-> s])

UpdateDataset ==
    /\ Idle
    /\ UNCHANGED threads
    /\ \E n \in {None} \cup {Some(s) : s \in Names} :
          /\ op' = "DatasetUpdate"
          /\ arg' = [name |-> n]
          /\ res' = DatasetUpdate([name |-> n])

CreateRatingQuestionSettings ==
    /\ Idle
    /\ UNCHANGED threads
    /\ \E p \in RatingPayloads :
          /\ op' = "RatingQuestionSettingsCreate"
          /\ arg' = p
          /\ res' = RatingQuestionSettingsCreate(<<>>, p)

CreateLabelSelectionQuestionSettings ==
    /\ Idle
    /\ UNCHANGED threads
    /\ \E p \in LabelPayloads("label_selection") :
          /\ op' = "LabelSelectionQuestionSettingsCreate"
          /\ arg' = p
          /\ res' = LabelSelectionQuestionSettingsCreate(<<>>, p)

CreateMultiLabelSelectionQuestionSettings ==
    /\ Idle
    /\ UNCHANGED threads
    /\ \E p \in LabelPayloads("multi_label_selection") :
          /\ op' = "MultiLabelSelectionQuestionSettingsCreate"
          /\ arg' = p
          /\ res' = MultiLabelSelectionQuestionSettingsCreate(<<>>, p)

CreateRankingQuestionSettings ==
    /\ Idle
    /\ UNCHANGED threads
    /\ \E p \in RankingPayloads :
          /\ op' = "RankingQuestionSettingsCreate"
          /\ arg' = p
          /\ res' = RankingQuestionSettingsCreate(<<>>, p)

ParseQuestionSettings ==
    /\ Idle
    /\ UNCHANGED threads
    /\ \E p \in QuestionSettingsPayloads :
          /\ op' = "QuestionSettingsCreate"
          /\ arg' = p
          /\ res' = QuestionSettingsCreate(<<>>, p)

CreateField ==
    /\ Idle
    /\ UNCHANGED threads
    /\ \E p \in FieldCreatePayloads :
          /\ op' = "FieldCreate"
          /\ arg' = p
          /\ res' = FieldCreate(p)

CreateQuestion ==
    /\ Idle
    /\ UNCHANGED threads
    /\ \E p \in QuestionCreatePayloads :
          /\ op' = "QuestionCreate"
          /\ arg' = p
          /\ res' = QuestionCreate(p)

CreateMetadataProperty ==
    /\ Idle
    /\ UNCHANGED threads
    /\ \E p \in MetadataPropertyCreatePayloads :
          /\ op' = "MetadataPropertyCreate"
          /\ arg' = p
          /\ res' = MetadataPropertyCreate(p)

CreateIntegerMetadataProperty ==
    /\ Idle
    /\ UNCHANGED threads
    /\ \E p \in IntegerMetadataPayloads :
          /\ op' = "IntegerMetadataPropertyCreate"
          /\ arg' = p
          /\ res' = IntegerMetadataPropertyCreate(<<>>, p)

CreateFloatMetadataProperty ==
    /\ Idle
    /\ UNCHANGED threads
    /\ \E p \in FloatMetadataPayloads :
          /\ op' = "FloatMetadataPropertyCreate"
          /\ arg' = p
          /\ res' = FloatMetadataPropertyCreate(<<>>, p)

ParseMetadataPropertySettings ==
    /\ Idle
    /\ UNCHANGED threads
    /\ \E p \in MetadataSettingsPayloads :
          /\ op' = "MetadataPropertySettingsCreate"
          /\ arg' = p
          /\ res' = MetadataPropertySettingsCreate(<<>>, p)

CreateRecord ==
    /\ Idle
    /\ UNCHANGED threads
    /\ \E p \in RecordCreatePayloads :
          /\ op' = "RecordCreate"
          /\ arg' = p
          /\ res' = RecordCreate(p)

CreateRecords ==
    /\ Idle
    /\ UNCHANGED threads
    /\ \E p \in RecordsCreatePayloads :
          /\ op' = "RecordsCreate"
          /\ arg' = p
          /\ res' = RecordsCreate(p)

UpdateRecords ==
    /\ Idle
    /\ UNCHANGED threads
    /\ \E p \in RecordsUpdatePayloads :
          /\ op' = "RecordsUpdate"
          /\ arg' = p
          /\ res' = RecordsUpdate(p)

ReadRecord ==
    /\ Idle
    /\ UNCHANGED threads
    /\ \E obj \in StorageRecords :
          /\ op' = "Record"
          /\ arg' = obj
          /\ res' = Record(obj)

ReadResponse ==
    /\ Idle
    /\ UNCHANGED threads
    /\ \E row \in StorageResponses :
          /\ op' = "Response"
          /\ arg' = row
          /\ res' = Response(row)

ParseMetadataQuery ==
    /\ Idle
    /\ UNCHANGED threads
    /\ \E q \in MetadataQueries :
          /\ op' = "MetadataQueryParams"
          /\ arg' = q
          /\ res' = metadata_parsed(q)

Next ==
    \/ CreateDataset
    \/ CreateRatingQuestionSettings
    \/ CreateLabelSelectionQuestionSettings
    \/ CreateMultiLabelSelectionQuestionSettings
    \/ CreateRankingQuestionSettings
    \/ ParseQuestionSettings
    \/ CreateField
    \/ CreateQuestion
    \/ CreateMetadataProperty
    \/ CreateIntegerMetadataProperty
    \/ CreateFloatMetadataProperty
    \/ ParseMetadataPropertySettings
    \/ CreateRecord
    \/ CreateRecords
    \/ UpdateRecords
    \/ ReadRecord
    \/ ReadResponse
    \/ ParseMetadataQuery
    \/ UpdateDataset
    \/ Return

Spec == Init /\ [][Next]_vars

(***************************************************************************)
(* Validators called from several threads.  check_unique_values and        *)
(* check_user_id_is_unique are the validators with a loop and with mutable *)
(* objects (seen, duplicates, user_ids); both create them inside the call, *)
(* so each call has a frame of its own.  A thread runs one call at a time, *)
(* one loop iteration per step, and the threads' steps interleave freely.  *)
(***************************************************************************)
\* one frame for every call, whatever the thread
SharedFrame(t) == 1

\* the frame that holds the locals of the call running on thread t
Frame(t) == t

\* the arguments of the calls: lists of up to two values out of {1, 2}
CallValues == ListsUpTo({1, 2}, 2)

ValidatorKinds == {"check_unique_values", "check_user_id_is_unique"}

\* entry of a validator: seen = set(), duplicates = set() / user_ids = []
Call(t) ==
    /\ calls[t].pc = "idle"
    /\ \E kind \in ValidatorKinds, values \in CallValues :
          calls' = [calls EXCEPT ![t] = [pc |-> "loop", kind |-> kind, values |-> values,
                                          i |-> 1, result |-> {}]]
    /\ frames' = [frames EXCEPT ![Frame(t)] = NewFrame]
    /\ UNCHANGED request

\* one iteration of `for option in options` in check_unique_values
IterateOptions(t) ==
    LET c == calls[t]
        f == frames[Frame(t)]
    IN  /\ c.pc = "loop" /\ c.kind = "check_unique_values"
        /\ c.i <= Len(c.values)
        /\ frames' = [frames EXCEPT ![Frame(t)] =
                         IF c.values[c.i] \in f.seen
                         THEN [f EXCEPT !.duplicates = @ \cup {c.values[c.i]}]
                         ELSE [f EXCEPT !.seen = @ \cup {c.values[c.i]}]]
        /\ calls' = [calls EXCEPT ![t].i = @ + 1]
        /\ UNCHANGED request

\* after the loop of check_unique_values: raise if duplicates, else return
RaiseOrReturnValues(t) ==
    LET c == calls[t]
        f == frames[Frame(t)]
    IN  /\ c.pc = "loop" /\ c.kind = "check_unique_values"
        /\ c.i > Len(c.values)
        /\ calls' = [calls EXCEPT
                        ![t].pc = "done",
                        ![t].result =
                            IF f.duplicates # {}
                            THEN {ErrorCtx(<<"__root__">>, "value_error.unique_values",
                                           f.duplicates)}
                            ELSE {}]
        /\ UNCHANGED <<frames, request>>

\* one iteration of `for value in values` in check_user_id_is_unique: raise
\* when the user_id is in user_ids, else append it
IterateResponses(t) ==
    LET c == calls[t]
        f == frames[Frame(t)]
    IN  /\ c.pc = "loop" /\ c.kind = "check_user_id_is_unique"
        /\ c.i <= Len(c.values)
        /\ IF \E k \in 1..Len(f.user_ids) : f.user_ids[k] = c.values[c.i]
           THEN /\ calls' = [calls EXCEPT
                               ![t].pc = "done",
                               ![t].result = {ErrorCtx(<<"responses">>,
                                                       "value_error.duplicate_user_id",
                                                       {c.values[c.i]})}]
                /\ UNCHANGED frames
           ELSE /\ frames' = [frames EXCEPT ![Frame(t)].user_ids = Append(@, c.values[c.i])]
                /\ calls' = [calls EXCEPT ![t].i = @ + 1]
        /\ UNCHANGED request

\* after the loop of check_user_id_is_unique: return values
ReturnResponses(t) ==
    LET c == calls[t]
    IN  /\ c.pc = "loop" /\ c.kind = "check_user_id_is_unique"
        /\ c.i > Len(c.values)
        /\ calls' = [calls EXCEPT ![t].pc = "done", ![t].result = {}]
        /\ UNCHANGED <<frames, request>>

\* the caller takes the outcome; the thread is free for its next call
Finish(t) ==
    /\ calls[t].pc = "done"
    /\ calls' = [calls EXCEPT ![t] = NoCall]
    /\ UNCHANGED <<frames, request>>

NextConcurrent ==
    \E t \in Threads :
        \/ Call(t)
        \/ IterateOptions(t)
        \/ RaiseOrReturnValues(t)
        \/ IterateResponses(t)
        \/ ReturnResponses(t)
        \/ Finish(t)

SpecConcurrent == Init /\ [][NextConcurrent]_vars

(***************************************************************************)
(* Properties.                                                             *)
(***************************************************************************)
Accepted == res.outcome = "accepted"
Rejected == res.outcome = "ValidationError"
HasError(type) == \E e \in res.errors : e.type = type

\* the integer values of an option list whose values are all integers
IntValues(xs) == [i \in 1..Len(xs) |-> Get(IntValidator(xs[i].value))]
AllIntegers(xs) == \A i \in 1..Len(xs) : ~IsNone(IntValidator(xs[i].value))
PairwiseDistinct(vs) == \A i, j \in 1..Len(vs) : i # j => vs[i] # vs[j]

RatingCall ==
    /\ op = "RatingQuestionSettingsCreate"
    /\ arg.type = Some("rating")
    /\ ~IsNone(arg.options)

\* C1: a rating settings payload is accepted if and only if its options list
\* has 2 to 10 items, every option value is an integer in [1,10] and no two
\* options have the same value; every other options list is rejected with a
\* validation error.
C1_RatingOptionsAccepted ==
    RatingCall =>
        LET xs == Get(arg.options)
        IN  /\ Accepted <=>
                 /\ Len(xs) >= 2 /\ Len(xs) <= 10
                 /\ AllIntegers(xs)
                 /\ \A i \in 1..Len(xs) : IntValues(xs)[i] \in 1..10
                 /\ PairwiseDistinct(IntValues(xs))
            /\ Accepted \/ Rejected

\* C1 witness: the options [1, 1] are rejected as duplicates
C1_Witness ==
    /\ RatingCall
    /\ Get(arg.options) = <<Option(JsonInt(1)), Option(JsonInt(1))>>
    /\ Rejected
    /\ HasError("value_error.unique_values")

LabelCall ==
    /\ op \in {"LabelSelectionQuestionSettingsCreate",
               "MultiLabelSelectionQuestionSettingsCreate"}
    /\ arg.type = Some(IF op = "LabelSelectionQuestionSettingsCreate"
                       THEN "label_selection" ELSE "multi_label_selection")
    /\ ~IsNone(arg.options)

\* a valid list of n label options: 2 <= n <= 250, every option well formed,
\* no value twice
ValidLabelOptions(xs) ==
    /\ Len(xs) >= 2 /\ Len(xs) <= 250
    /\ \A i \in 1..Len(xs) : ValueTextQuestionSettingsOption(<<>>, xs[i]) = {}
    /\ PairwiseDistinct([i \in 1..Len(xs) |-> StrValidator(xs[i].value)])

\* C2: label_selection and multi_label_selection settings with a valid list
\* of n options are accepted if and only if visible_options is absent or
\* 3 <= visible_options <= n.
C2_VisibleOptionsAccepted ==
    (LabelCall /\ ValidLabelOptions(Get(arg.options))) =>
        /\ Accepted <=>
             \/ IsNone(arg.visible_options)
             \/ /\ 3 <= Get(arg.visible_options)
                /\ Get(arg.visible_options) <= Len(Get(arg.options))
        /\ Accepted \/ Rejected

\* C2 witness: 5 options with visible_options = 6 are rejected
C2_Witness ==
    /\ LabelCall
    /\ ValidLabelOptions(Get(arg.options))
    /\ Len(Get(arg.options)) = 5
    /\ arg.visible_options = Some(6)
    /\ Rejected
    /\ HasError("value_error.visible_options")

NumericCall ==
    \/ op = "IntegerMetadataPropertyCreate" /\ arg.type = Some("integer")
    \/ op = "FloatMetadataPropertyCreate" /\ arg.type = Some("float")

BothBounds(p) == ~IsNone(p.min) /\ ~IsNone(p.max)
IsNumber(x) == ~x.nan

\* min >= max, for numbers that compare
MinNotBelowMax(p) ==
    /\ BothBounds(p)
    /\ IsNumber(Get(p.min)) /\ IsNumber(Get(p.max))
    /\ Get(p.min).v >= Get(p.max).v

MinBelowMax(p) ==
    /\ BothBounds(p)
    /\ IsNumber(Get(p.min)) /\ IsNumber(Get(p.max))
    /\ Get(p.min).v < Get(p.max).v

\* C3: integer and float metadata property settings are rejected exactly
\* when min and max are both present and min >= max; they are accepted when
\* min < max strictly or when min or max is absent.
C3_NumericBounds ==
    NumericCall =>
        /\ Rejected <=> MinNotBelowMax(arg)
        /\ (MinBelowMax(arg) \/ ~BothBounds(arg)) => Accepted
        /\ Accepted \/ Rejected

\* C3 witness: an integer property with min = 5 and max = 5 is rejected
C3_Witness ==
    /\ op = "IntegerMetadataPropertyCreate"
    /\ arg.type = Some("integer")
    /\ arg.min = Some(Num(5)) /\ arg.max = Some(Num(5))
    /\ Rejected
    /\ HasError("value_error.bounds")

\* a well-formed write-time response: a UUID for the user, a known status,
\* and values when submitted
WellFormedResponse(r) ==
    /\ r.user_id.form # "malformed"
    /\ \/ r.status = Some("submitted") /\ r.values = "mapping"
       \/ r.status = Some("discarded") /\ r.values # "scalar"

\* the users of a responses list, as UUIDs
Users(rs) == [i \in 1..Len(rs) |-> rs[i].user_id.n]

\* a record payload that breaks no rule of its own
SoundRecord(r) ==
    /\ r.fields = "mapping"
    /\ \/ IsNone(r.responses)
       \/ /\ \A i \in 1..Len(Get(r.responses)) : WellFormedResponse(Get(r.responses)[i])
          /\ PairwiseDistinct(Users(Get(r.responses)))

\* C4: a RecordCreate whose responses are given is accepted only if their
\* user ids are pairwise distinct; a list where a user id occurs twice is
\* rejected with a duplicate-user error; an absent or empty list is
\* accepted; and the validator looks at one record's list only: a batch is not
\* rejected for a user who responds in two of its records.
C4_OneResponsePerUser ==
    /\ (op = "RecordCreate" /\ arg.fields = "mapping") =>
          /\ IsNone(arg.responses) => Accepted
          /\ ~IsNone(arg.responses) =>
                LET rs == Get(arg.responses)
                IN  /\ rs = <<>> => Accepted
                    /\ (\A i \in 1..Len(rs) : rs[i].user_id.form # "malformed") =>
                          (Accepted => PairwiseDistinct(Users(rs)))
                    /\ (\A i \in 1..Len(rs) : WellFormedResponse(rs[i])) =>
                          /\ Accepted <=> PairwiseDistinct(Users(rs))
                          /\ ~PairwiseDistinct(Users(rs)) =>
                                /\ Rejected
                                /\ HasError("value_error.duplicate_user_id")
    /\ (op = "RecordsCreate" /\ Len(arg.items) \in 1..1000
        /\ \A i \in 1..Len(arg.items) : SoundRecord(arg.items[i])) => Accepted

\* C4 witness: two responses of the same user are rejected as duplicates
C4_Witness ==
    /\ op = "RecordCreate"
    /\ ~IsNone(arg.responses)
    /\ Len(Get(arg.responses)) = 2
    /\ Users(Get(arg.responses)) = <<1, 1>>
    /\ Rejected
    /\ HasError("value_error.duplicate_user_id")

\* C5: in the Record read model, a relation (responses, suggestions) that
\* the storage object reports as not loaded is serialized as null whatever
\* it holds, and a loaded, empty relation as the empty list; each relation
\* follows its own load state only.
C5_UnloadedRelationIsNull ==
    op = "Record" =>
        \A r \in Relations :
            /\ r \notin arg.loaded => res[r] = None
            /\ (r \in arg.loaded /\ arg[r] = <<>>) => res[r] = Some(<<>>)

\* C5 witness: suggestions not loaded though holding rows, responses loaded
\* and empty
C5_Witness ==
    /\ op = "Record"
    /\ arg.loaded = {"responses"}
    /\ arg.responses = <<>>
    /\ arg.suggestions # <<>>
    /\ res.suggestions = None
    /\ res.responses = Some(<<>>)

HasColon(s) == \E i \in 1..Len(s) : s[i] = COLON

\* value is rest without its leading and trailing whitespace
Stripped(rest, value) ==
    \E a, b \in 0..Len(rest) :
        /\ a + b <= Len(rest)
        /\ value = SubSeq(rest, a + 1, Len(rest) - b)
        /\ \A i \in 1..a : IsSpace(rest[i])
        /\ \A i \in (Len(rest) - b + 1)..Len(rest) : IsSpace(rest[i])
        /\ value # <<>> => ~IsSpace(value[1]) /\ ~IsSpace(value[Len(value)])

\* C6: a metadata filter with a colon is parsed into the name before the
\* first colon, unmodified, and the value: all that follows the first
\* colon, without its leading and trailing whitespace only.
C6_MetadataFilterParsed ==
    op = "MetadataQueryParams" =>
        /\ Len(res.parsed) = Len(arg)
        /\ \A i \in 1..Len(arg) :
              HasColon(arg[i]) =>
                 \E c \in 1..Len(arg[i]) :
                    /\ arg[i][c] = COLON
                    /\ \A j \in 1..(c - 1) : arg[i][j] # COLON
                    /\ res.parsed[i].name = SubSeq(arg[i], 1, c - 1)
                    /\ Stripped(SubSeq(arg[i], c + 1, Len(arg[i])), res.parsed[i].value)

\* C6 witness: "color:red,blue" gives the name "color" and the value "red,blue"
C6_Witness ==
    /\ op = "MetadataQueryParams"
    /\ arg = <<<<99, 111, 108, 111, 114, 58, 114, 101, 100, 44, 98, 108, 117, 101>>>>
    /\ res.parsed[1].name = <<99, 111, 108, 111, 114>>
    /\ res.parsed[1].value = <<114, 101, 100, 44, 98, 108, 117, 101>>

SoundUpdate(u) == u.valid /\ u.id.form # "malformed"

BatchOfValidItems ==
    \/ op = "RecordsCreate" /\ \A i \in 1..Len(arg.items) : SoundRecord(arg.items[i])
    \/ op = "RecordsUpdate" /\ \A i \in 1..Len(arg.items) : SoundUpdate(arg.items[i])

\* C7: a RecordsCreate or RecordsUpdate batch of individually valid items is
\* accepted if and only if it has 1 to 1000 items.
C7_BatchSize ==
    BatchOfValidItems =>
        /\ Accepted <=> (1 <= Len(arg.items) /\ Len(arg.items) <= 1000)
        /\ Accepted \/ Rejected

\* C7 witness: a batch of 1001 valid records is rejected for its length
C7_Witness ==
    /\ op = "RecordsCreate"
    /\ BatchOfValidItems
    /\ Len(arg.items) = 1001
    /\ Rejected
    /\ HasError("value_error.list.max_items")

\* a dataset name as the specification describes it: only letters, digits,
\* "-", "_" and space, not starting with "-" or "_", 1 to 200 characters
WellFormedDatasetName(s) ==
    /\ Len(s) >= 1 /\ Len(s) <= 200
    /\ \A i \in 1..Len(s) :
          IsLower(s[i]) \/ IsUpper(s[i]) \/ IsDigit(s[i]) \/ s[i] \in {HYPHEN, UNDERSCORE, SPACE}
    /\ s[1] \notin {HYPHEN, UNDERSCORE}

\* C8: dataset-name validation (DatasetCreate.name, DatasetUpdate.name when
\* given) succeeds exactly for the strings of 1 to 200 characters that hold
\* only letters, digits, "-", "_" and space and do not start with "-" or
\* "_", and fails for every other string.
C8_DatasetNameValidation ==
    /\ op = "DatasetCreate" => (Accepted <=> WellFormedDatasetName(arg.name))
    /\ (op = "DatasetUpdate" /\ ~IsNone(arg.name)) =>
          (Accepted <=> WellFormedDatasetName(Get(arg.name)))

\* a field, question or metadata property name as the specification
\* describes it: only characters of [a-z0-9_-], at least one letter or
\* digit, 1 to 200 characters
WellFormedCreateName(s) ==
    /\ Len(s) >= 1 /\ Len(s) <= 200
    /\ \A i \in 1..Len(s) :
          IsLower(s[i]) \/ IsDigit(s[i]) \/ s[i] \in {HYPHEN, UNDERSCORE}
    /\ \E i \in 1..Len(s) : IsLower(s[i]) \/ IsDigit(s[i])

\* a FieldCreate, QuestionCreate or MetadataPropertyCreate call whose
\* fields other than the name are valid
CreateCallWithValidRest ==
    /\ op \in {"FieldCreate", "QuestionCreate", "MetadataPropertyCreate"}
    /\ ~IsNone(arg.name)
    /\ arg.title = Some(<<LOWER_A>>)
    /\ IsNone(arg.description)
    /\ arg.settings.type = Some(IF op = "MetadataPropertyCreate" THEN "terms" ELSE "text")

\* C9: for FieldCreate, QuestionCreate and MetadataPropertyCreate alike, name
\* validation succeeds if and only if the name holds only characters of
\* [a-z0-9_-], at least one lowercase letter or digit, and 1 to 200
\* characters.
C9_CreateNameValidation ==
    CreateCallWithValidRest => (Accepted <=> WellFormedCreateName(Get(arg.name)))

\* what each variant of the question settings asks of a payload
RatingAsks(p) ==
    /\ ~IsNone(p.options)
    /\ LET xs == Get(p.options)
       IN  /\ Len(xs) >= 2 /\ Len(xs) <= 10
           /\ AllIntegers(xs)
           /\ \A i \in 1..Len(xs) : IntValues(xs)[i] \in 1..10
           /\ PairwiseDistinct(IntValues(xs))

WellFormedValueTextOption(o) ==
    /\ Len(StrValidator(o.value)) \in 1..200
    /\ ~IsNone(o.text) /\ Len(Get(o.text)) \in 1..500

ValueTextAsks(p, maxItems) ==
    /\ ~IsNone(p.options)
    /\ LET xs == Get(p.options)
       IN  /\ Len(xs) >= 2 /\ Len(xs) <= maxItems
           /\ \A i \in 1..Len(xs) : WellFormedValueTextOption(xs[i])
           /\ PairwiseDistinct([i \in 1..Len(xs) |-> StrValidator(xs[i].value)])

LabelAsks(p) ==
    /\ ValueTextAsks(p, 250)
    /\ \/ IsNone(p.visible_options)
       \/ /\ Get(p.visible_options) >= 3
          /\ Get(p.visible_options) <= Len(Get(p.options))

VariantAsks(p) ==
    CASE Get(p.type) = "text" -> TRUE
      [] Get(p.type) = "rating" -> RatingAsks(p)
      [] Get(p.type) \in {"label_selection", "multi_label_selection"} -> LabelAsks(p)
      [] Get(p.type) = "ranking" -> ValueTextAsks(p, 50)

VariantName(type) ==
    CASE type = "text" -> "TextQuestionSettingsCreate"
      [] type = "rating" -> "RatingQuestionSettingsCreate"
      [] type = "label_selection" -> "LabelSelectionQuestionSettingsCreate"
      [] type = "multi_label_selection" -> "MultiLabelSelectionQuestionSettingsCreate"
      [] type = "ranking" -> "RankingQuestionSettingsCreate"
      [] type = "terms" -> "TermsMetadataPropertyCreate"
      [] type = "integer" -> "IntegerMetadataPropertyCreate"
      [] type = "float" -> "FloatMetadataPropertyCreate"

MetadataVariantAsks(p) ==
    CASE Get(p.type) = "terms" ->
            IsNone(p.values) \/ Len(Get(p.values)) \in 1..250
      [] Get(p.type) \in {"integer", "float"} -> ~MinNotBelowMax(p)

DiscriminatorErrors ==
    {"value_error.discriminated_union.missing_discriminator",
     "value_error.discriminated_union.invalid_discriminator"}

\* the payload is rejected for its tag, and for nothing else
RejectedForTheTag ==
    /\ Rejected
    /\ Cardinality(res.errors) = 1
    /\ \A e \in res.errors : e.type \in DiscriminatorErrors /\ e.loc = <<>>

\* C10: question settings and metadata property settings are parsed by the
\* `type` tag alone: a payload with a tag of the closed set is accepted
\* exactly when it meets its variant's schema, whatever other variants ask,
\* and every error is the variant's; a payload with no tag or an unknown tag
\* is always rejected with a validation error.
C10_DispatchOnType ==
    /\ op = "QuestionSettingsCreate" =>
          IF IsNone(arg.type) \/ Get(arg.type) \notin QuestionTypes
          THEN RejectedForTheTag
          ELSE /\ Accepted <=> VariantAsks(arg)
               /\ \A e \in res.errors : e.loc[1] = VariantName(Get(arg.type))
    /\ op = "MetadataPropertySettingsCreate" =>
          IF IsNone(arg.type) \/ Get(arg.type) \notin MetadataPropertyTypes
          THEN RejectedForTheTag
          ELSE /\ Accepted <=> MetadataVariantAsks(arg)
               /\ \A e \in res.errors : e.loc[1] = VariantName(Get(arg.type))

\* C10 witness: rating options under the unknown tag "draft" are rejected
C10_Witness ==
    /\ op = "QuestionSettingsCreate"
    /\ arg.type = Some("draft")
    /\ arg.options = Some(<<Option(JsonInt(1)), Option(JsonInt(2))>>)
    /\ Rejected
    /\ HasError("value_error.discriminated_union.invalid_discriminator")

(***************************************************************************)
(* Write-time responses                                                    *)
(***************************************************************************)
\* a RecordCreate call whose responses list holds one response, of a user
\* given by a well-formed UUID, in a payload with fields
OneResponseCall ==
    /\ op = "RecordCreate"
    /\ arg.fields = "mapping"
    /\ ~IsNone(arg.responses)
    /\ Len(Get(arg.responses)) = 1
    /\ Get(arg.responses)[1].user_id.form # "malformed"

TheResponse == Get(arg.responses)[1]

\* every error lies in the named variant of the first response
ErrorsUnder(variant) ==
    \A e \in res.errors :
        Len(e.loc) >= 3 /\ e.loc[1] = "responses" /\ e.loc[2] = "0" /\ e.loc[3] = variant

\* C11: a write-time response is validated by the variant its status names:
\* with status submitted it is accepted exactly when values is a mapping
\* (absent and null values are rejected); with status discarded it is
\* accepted when values is a mapping, null or absent.
C11_ResponseValuesByStatus ==
    OneResponseCall =>
        /\ TheResponse.status = Some("submitted") =>
              /\ Accepted <=> TheResponse.values = "mapping"
              /\ ErrorsUnder("UserSubmittedResponseCreate")
        /\ TheResponse.status = Some("discarded") =>
              /\ TheResponse.values \in {"mapping", "null", "missing"} => Accepted
              /\ ErrorsUnder("UserDiscardedResponseCreate")

\* C11 witness: a submitted response with null values is rejected for its
\* values
C11_Witness ==
    /\ OneResponseCall
    /\ TheResponse.status = Some("submitted")
    /\ TheResponse.values = "null"
    /\ Rejected
    /\ HasError("type_error.none.not_allowed")

(***************************************************************************)
(* Cross-field checks and field-level failures                             *)
(***************************************************************************)
\* a direct call of an option-list-bearing variant, with the variant's tag
OptionsVariantCall ==
    \/ op = "RatingQuestionSettingsCreate" /\ arg.type = Some("rating")
    \/ op = "LabelSelectionQuestionSettingsCreate" /\ arg.type = Some("label_selection")
    \/ op = "MultiLabelSelectionQuestionSettingsCreate"
          /\ arg.type = Some("multi_label_selection")
    \/ op = "RankingQuestionSettingsCreate" /\ arg.type = Some("ranking")

\* the errors of the variant's fields, each validated on its own
FieldLevelErrors ==
    IF op = "RatingQuestionSettingsCreate" THEN RatingOptionsErrors(<<"options">>, arg)
    ELSE IF op = "RankingQuestionSettingsCreate"
    THEN ValueTextOptionsErrors(<<"options">>, arg, RANKING_OPTIONS_MIN_ITEMS,
                                RANKING_OPTIONS_MAX_ITEMS)
    ELSE ValueTextOptionsErrors(<<"options">>, arg, LABEL_SELECTION_OPTIONS_MIN_ITEMS,
                                LABEL_SELECTION_OPTIONS_MAX_ITEMS)
         \cup VisibleOptionsErrors(<<"visible_options">>, arg)

\* C12: when a field of an option-list-bearing variant fails field-level
\* validation, the call ends with a validation error that reports exactly the
\* field-level failures: no cross-field check has acted on the incomplete
\* values.
C12_CrossFieldAfterFieldLevel ==
    (OptionsVariantCall /\ FieldLevelErrors # {}) =>
        /\ Rejected
        /\ res.errors = FieldLevelErrors

(***************************************************************************)
(* Uniqueness of option values                                             *)
(***************************************************************************)
\* the option values as the variant holds them once validated: integers in
\* rating, strings in the other variants
OptionValues ==
    IF op = "RatingQuestionSettingsCreate" THEN IntValues(Get(arg.options))
    ELSE [i \in 1..Len(Get(arg.options)) |-> StrValidator(Get(arg.options)[i].value)]

\* the options field passes its own validation
OptionsFieldValid ==
    IF op = "RatingQuestionSettingsCreate" THEN RatingOptionsErrors(<<"options">>, arg) = {}
    ELSE IF op = "RankingQuestionSettingsCreate"
    THEN ValueTextOptionsErrors(<<"options">>, arg, RANKING_OPTIONS_MIN_ITEMS,
                                RANKING_OPTIONS_MAX_ITEMS) = {}
    ELSE ValueTextOptionsErrors(<<"options">>, arg, LABEL_SELECTION_OPTIONS_MIN_ITEMS,
                                LABEL_SELECTION_OPTIONS_MAX_ITEMS) = {}

\* the values that occur at more than one position
OccurringTwice(vs) == {vs[i] : i \in {k \in 1..Len(vs) : \E j \in 1..Len(vs) : j # k /\ vs[j] = vs[k]}}

UniquenessErrors == {e \in res.errors : e.type = "value_error.unique_values"}

\* C13: in rating, label_selection, multi_label_selection and ranking, an
\* options list that passes field validation is rejected by the uniqueness
\* check if and only if one of its values occurs more than once under exact,
\* case-sensitive equality; there is then one uniqueness error and it names
\* every value that occurs more than once.
C13_UniqueOptionValues ==
    (OptionsVariantCall /\ OptionsFieldValid) =>
        /\ (UniquenessErrors # {}) <=> ~PairwiseDistinct(OptionValues)
        /\ UniquenessErrors # {} => Rejected
        /\ \A e \in UniquenessErrors : e.ctx = OccurringTwice(OptionValues)
        /\ Cardinality(UniquenessErrors) <= 1

\* C13 witness: a ranking list that holds "a" three times, "b" twice and "A"
\* once is rejected with an error naming "a" and "b"
C13_Witness ==
    /\ op = "RankingQuestionSettingsCreate"
    /\ arg.type = Some("ranking")
    /\ OptionsFieldValid
    /\ Len(OptionValues) = 6
    /\ Rejected
    /\ \E e \in UniquenessErrors : e.ctx = {<<LOWER_A>>, <<LOWER_A + 1>>}

\* values that differ in letter case only are accepted
C13_WitnessLetterCase ==
    /\ op = "LabelSelectionQuestionSettingsCreate"
    /\ arg.type = Some("label_selection")
    /\ ~IsNone(arg.options)
    /\ OptionValues = <<<<LOWER_A>>, <<UPPER_A>>, <<LOWER_A, LOWER_A>>, <<LOWER_A, UPPER_A>>>>
    /\ Accepted

(***************************************************************************)
(* Aggregate error reports                                                 *)
(***************************************************************************)
\* the outcome of each field of a QuestionCreate payload validated on its own
QuestionFieldResult(f) ==
    CASE f = "name" -> Result(IF IsNone(arg.name) THEN Required(<<"name">>, arg.name)
                              ELSE QuestionName(<<"name">>, Get(arg.name)))
      [] f = "title" -> Result(IF IsNone(arg.title) THEN Required(<<"title">>, arg.title)
                               ELSE QuestionTitle(<<"title">>, Get(arg.title)))
      [] f = "description" ->
            Result(IF IsNone(arg.description) THEN {}
                   ELSE QuestionDescription(<<"description">>, Get(arg.description)))
      [] f = "settings" -> QuestionSettingsCreate(<<"settings">>, arg.settings)

QuestionFields == {"name", "title", "description", "settings"}

\* the report has an entry under the path loc
Reported(loc) ==
    \E e \in res.errors : Len(e.loc) >= Len(loc) /\ SubSeq(e.loc, 1, Len(loc)) = loc

\* the items of a batch that are invalid on their own
InvalidItems == {i \in 1..Len(arg.items) : RecordCreateErrors(<<>>, arg.items[i]) # {}}

\* C14: a QuestionCreate payload with violated fields is rejected with one
\* report that has an entry under each violated field, and a RecordsCreate
\* batch of an allowed size with invalid items is rejected with one report
\* that has an entry under the position of each invalid item.
C14_EveryViolationReported ==
    /\ op = "QuestionCreate" =>
          \A f \in QuestionFields :
              QuestionFieldResult(f).outcome # "accepted" => Rejected /\ Reported(<<f>>)
    /\ (op = "RecordsCreate" /\ Len(arg.items) \in RECORDS_CREATE_MIN_ITEMS..RECORDS_CREATE_MAX_ITEMS) =>
          \A i \in InvalidItems : Rejected /\ Reported(At(<<"items">>, i))

(***************************************************************************)
(* Calls on several threads                                                *)
(***************************************************************************)
\* what the call returns when it runs alone
Alone(c) ==
    IF c.kind = "check_unique_values"
    THEN check_unique_values([has |-> {"options"}, options |-> c.values])
    ELSE check_user_id_is_unique(<<"responses">>, c.values)

\* C15: whatever the other threads do meanwhile, a finished validator call
\* has the outcome that the same call has when it runs alone; so two
\* finished calls with the same argument have the same outcome.
C15_CallsAreIndependent ==
    /\ \A t \in Threads : calls[t].pc = "done" => calls[t].result = Alone(calls[t])
    /\ \A t, u \in Threads :
          (/\ calls[t].pc = "done" /\ calls[u].pc = "done"
           /\ calls[t].kind = calls[u].kind /\ calls[t].values = calls[u].values)
          => calls[t].result = calls[u].result

\* C15 witness: a call that found a duplicate finishes while another thread,
\* given the same values, is in the middle of its loop
C15_Witness ==
    \E t, u \in Threads :
        /\ t # u
        /\ calls[t].pc = "done" /\ calls[t].kind = "check_unique_values"
        /\ calls[t].values = <<1, 1>> /\ calls[t].result # {}
        /\ calls[u].pc = "loop" /\ calls[u].kind = "check_unique_values"
        /\ calls[u].values = <<1, 1>> /\ calls[u].i = 2

(***************************************************************************)
(* Statuses of write-time responses                                        *)
(***************************************************************************)
\* the statuses of the responses of a record payload
StatusesOf(r) ==
    IF IsNone(r.responses) THEN {}
    ELSE {Get(r.responses)[i].status : i \in 1..Len(Get(r.responses))}

WriteStatuses == {Some("submitted"), Some("discarded")}

\* C16: the read model of a response takes every status of the enumeration,
\* draft included, while a RecordCreate payload (alone or as an item of a
\* batch) that holds a response whose status is not submitted or discarded
\* is rejected: no accepted payload holds a draft response.
C16_NoDraftOnWrite ==
    /\ (op = "Response" /\ arg.status \in ResponseStatus) => Accepted
    /\ op = "RecordCreate" =>
          /\ ~(StatusesOf(arg) \subseteq WriteStatuses) =>
                /\ Rejected
                /\ \E e \in res.errors :
                      /\ e.type \in DiscriminatorErrors
                      /\ Len(e.loc) = 2 /\ e.loc[1] = "responses"
          /\ Accepted => Some("draft") \notin StatusesOf(arg)
    /\ op = "RecordsCreate" =>
          /\ (\E i \in 1..Len(arg.items) : ~(StatusesOf(arg.items[i]) \subseteq WriteStatuses))
                => Rejected
          /\ Accepted => \A i \in 1..Len(arg.items) : Some("draft") \notin StatusesOf(arg.items[i])

\* C16 witness: a record whose only response is a draft of a known user with
\* values is rejected for the status
C16_Witness ==
    /\ OneResponseCall
    /\ TheResponse.status = Some("draft")
    /\ TheResponse.values = "mapping"
    /\ Rejected
    /\ res.errors = {Error(<<"responses", "0">>,
                            "value_error.discriminated_union.invalid_discriminator")}

\* a stored draft response is read
C16_WitnessRead ==
    /\ op = "Response"
    /\ arg.status = "draft"
    /\ Accepted

====
